---- MODULE Spec2Model ----
(***************************************************************************)
(* Model of mackay_registrar.py: the registration run (batch_registration) *)
(* of MackayChildHospitalRegistrar, its cooldown state file, its session   *)
(* bootstrap, its result classifier (parse_result) and its notification.   *)
(*                                                                         *)
(* Time is counted in whole hours.  Text is a sequence of characters; each *)
(* Chinese character of the source is written as its pinyin syllable, so   *)
(* that `keyword in page_text` is a real substring search.                 *)
(***************************************************************************)
EXTENDS Integers, Sequences, FiniteSets, TLC

VARIABLES
    now,        \* the wall clock, datetime.now(), in hours
    file,       \* the content of mackay_state.json
    run,        \* number of the current run of batch_registration
    pc,         \* position of the current run
    idx,        \* total_attempts: index of the candidate being tried
    result,     \* the value batch_registration returned
    gets,       \* the session GETs of this run and how each ended, in order
    posts,      \* the candidates POSTed in this run, in order
    outs,       \* result.get('success') of each POST of this run, in order
    lastResp,   \* what the last POST met
    lastOut,    \* the dict the last make_appointment returned
    notified,   \* the dicts handed to send_email_notification in this run
    entryFile,  \* the state file as it was when this run started
    entryTime,  \* the clock when this run called should_skip_check
    writes,     \* the save_state calls of this run, by call site, in order
    succAt,     \* the clock when the latest Success run ended, -1 if none
    succRun,    \* the run that ended with that Success, 0 if none
    exit,       \* the exit code main returned for this run, -1 while it runs
    mem,        \* the state handed to save_state when the store is exercised
    disk,       \* how that write ended
    loaded,     \* what load_state returned afterwards
    err,        \* whether an exception left save_state or load_state
    email_config,   \* DoctorMonitor: whether an e-mail configuration was given
    mpc,            \* DoctorMonitor.monitor: where the loop stands
    cycles,         \* the number of the current check cycle
    error_count,    \* the local error_count of monitor
    fails,          \* the failing cycles in a row up to now
    driver,         \* how many times setup_driver has created the driver
    checked,        \* the URLs checked in this cycle, with what each gave
    found,          \* all_available_slots of this cycle
    sends,          \* the calls of send_email_notification in this cycle
    cycleEnd,       \* how the cycle ended: "ok", "raised", "none" while it runs
    sentBefore,     \* the slots notified in earlier cycles
    environ,        \* verify_config: the environment variables
    report          \* verify_config: all_ok, the recipient and the mail

vars == <<now, file, run, pc, idx, result, gets, posts, outs, lastResp,
          lastOut, notified, entryFile, entryTime, writes, succAt, succRun,
          exit, mem, disk, loaded, err, email_config, mpc, cycles, error_count,
          fails, driver, checked, found, sends, cycleEnd, sentBefore, environ, report>>

\* the variables of checkDoc.py and of verify_config.py
beside == <<email_config, mpc, cycles, error_count, fails, driver, checked,
            found, sends, cycleEnd, sentBefore, environ, report>>

\* the variables of the exercise of the state store
store == <<mem, disk, loaded, err>>

----------------------------------------------------------------------------
(* Bounds of the model *)

MaxTime == 4
MaxRuns == 2
MaxBody == 2
MaxCount == 1

----------------------------------------------------------------------------
(* The cooldown state and the state file: load_state, save_state *)

PauseHours == 2

Null == [k |-> "null", t |-> 0]
Bad == [k |-> "bad", t |-> 0]

\* datetime.isoformat(): the timestamp as the string the file stores
isoformat(t) == [k |-> "iso", t |-> t]

\* datetime.fromisoformat() succeeds on a stored ISO string only
CanParse(v) == v.k = "iso"
fromisoformat(v) == v.t

DefaultState ==
    [last_notification_time |-> Null,
     pause_until |-> Null,
     notification_count |-> 0,
     last_check |-> Null]

\* The text of the state file is a sequence of JSON tokens: punctuation,
\* keys, and the values null, "string" and number.
Tok(tok, k, t) == [tok |-> tok, k |-> k, t |-> t]

\* variant: a timestamp written without its time of day
JsonTextNoTime(v) ==
    IF v.k = "null" THEN Tok("null", "", 0) ELSE Tok("string", v.k, 0)

\* json.dump of None or a str
JsonText(v) == IF v.k = "null" THEN Tok("null", "", 0) ELSE Tok("string", v.k, v.t)

\* json.dump of an int
JsonInt(n) == Tok("number", "", n)

StateKeys ==
    <<"last_notification_time", "pause_until", "notification_count", "last_check">>

\* json.dump(state, f): the keys in the order of the dict
json_dump(state) ==
    <<Tok("{", "", 0),
      Tok("key", "last_notification_time", 0), JsonText(state.last_notification_time),
      Tok("key", "pause_until", 0), JsonText(state.pause_until),
      Tok("key", "notification_count", 0), JsonInt(state.notification_count),
      Tok("key", "last_check", 0), JsonText(state.last_check),
      Tok("}", "", 0)>>

\* json.load accepts the text: an object of key, value pairs (the objects
\* of the model are those json_dump writes, holding the four keys)
JsonValid(text) ==
    /\ Len(text) >= 2
    /\ Len(text) % 2 = 0
    /\ text[1].tok = "{"
    /\ text[Len(text)].tok = "}"
    /\ \A i \in 2..(Len(text) - 1) :
          IF i % 2 = 0
          THEN text[i].tok = "key"
          ELSE text[i].tok \in {"null", "string", "number"}
    /\ \A n \in 1..Len(StateKeys) :
          \E i \in 2..(Len(text) - 1) : text[i].tok = "key" /\ text[i].k = StateKeys[n]

\* the value json.load gives to a key: the one of its last occurrence
JsonValue(text, key) ==
    LET at == CHOOSE i \in 2..(Len(text) - 1) :
                  /\ text[i].tok = "key" /\ text[i].k = key
                  /\ \A j \in (i + 1)..(Len(text) - 1) :
                        ~(text[j].tok = "key" /\ text[j].k = key)
        v == text[at + 1]
    IN IF v.tok = "null" THEN Null
       ELSE IF v.tok = "string" THEN [k |-> v.k, t |-> v.t]
       ELSE [k |-> "number", t |-> v.t]

\* json.load(f) of a valid text
json_load(text) ==
    [last_notification_time |-> JsonValue(text, "last_notification_time"),
     pause_until |-> JsonValue(text, "pause_until"),
     notification_count |-> JsonValue(text, "notification_count").t,
     last_check |-> JsonValue(text, "last_check")]

\* no state file; a state file cut short
Absent == [kind |-> "absent", data |-> <<>>]
Garbled == [kind |-> "garbled", data |-> <<Tok("{", "", 0)>>]

\* the default state when there is no file or json.load raises
load_state(f) ==
    IF f.kind # "absent" /\ JsonValid(f.data) THEN json_load(f.data) ELSE DefaultState

\* the file once save_state has written all of it
save_state(state) == [kind |-> "json", data |-> json_dump(state)]

----------------------------------------------------------------------------
(* Text.  A text is a sequence of characters; a character is a string: a   *)
(* pinyin syllable for a Chinese character ("yi3" is the character of      *)
(* "already", "yi1" the one of "doctor"), "fc" for the full-width colon,   *)
(* " " and "nl" for white space.                                           *)

White == {" ", "nl", "cr"}
Digit == {"0", "1", "2", "3", "4", "5", "6", "7", "8", "9"}

\* s[a..b], empty when out of range
Slice(s, a, b) == IF a > b THEN <<>> ELSE SubSeq(s, a, b)

\* text[i:] starts with k  (i is 1-based)
StartsAt(s, k, i) ==
    /\ i >= 1
    /\ i + Len(k) - 1 <= Len(s)
    /\ Slice(s, i, i + Len(k) - 1) = k

\* Python's `k in s`
Contains(s, k) == \E i \in 1..(Len(s) + 1) : StartsAt(s, k, i)

\* the least position where k occurs in s, 0 if none
Find(s, k) ==
    IF Contains(s, k)
    THEN CHOOSE i \in 1..(Len(s) + 1) :
             /\ StartsAt(s, k, i)
             /\ \A j \in 1..(i - 1) : ~StartsAt(s, k, j)
    ELSE 0

\* Python's s.replace(k, r) for a non-empty k
RECURSIVE Replace(_, _, _)
Replace(s, k, r) ==
    IF Find(s, k) = 0
    THEN s
    ELSE LET i == Find(s, k)
         IN Slice(s, 1, i - 1) \o r \o Replace(Slice(s, i + Len(k), Len(s)), k, r)

\* Python's s.strip()
RECURSIVE LStrip(_)
LStrip(s) == IF s # <<>> /\ Head(s) \in White THEN LStrip(Tail(s)) ELSE s

RECURSIVE RStrip(_)
RStrip(s) ==
    IF s # <<>> /\ s[Len(s)] \in White THEN RStrip(Slice(s, 1, Len(s) - 1)) ELSE s

Strip(s) == LStrip(RStrip(s))

\* Python's s[:n]
Take(s, n) == Slice(s, 1, IF Len(s) < n THEN Len(s) ELSE n)

\* the concatenation of the texts of a sequence
RECURSIVE Concat(_)
Concat(ts) == IF ts = <<>> THEN <<>> ELSE Head(ts) \o Concat(Tail(ts))

\* Python's sep.join(ts)
RECURSIVE Join(_, _)
Join(sep, ts) ==
    IF ts = <<>> THEN <<>>
    ELSE IF Len(ts) = 1 THEN ts[1]
    ELSE ts[1] \o sep \o Join(sep, Tail(ts))

\* Python dicts: functions from the keys that are present
EmptyDict == [k \in {} |-> FALSE]
Put(d, k, v) == [x \in (DOMAIN d) \cup {k} |-> IF x = k THEN v ELSE d[x]]
Has(d, k) == k \in DOMAIN d
\* the truth value of d.get(k), for a key that holds a bool / a text
GetBool(d, k) == Has(d, k) /\ d[k]
GetText(d, k) == Has(d, k) /\ d[k] # <<>>

----------------------------------------------------------------------------
(* The response page.  A page is what BeautifulSoup finds in it:           *)
(*   body     the text nodes outside the elements below                    *)
(*   strongs  the <strong> tags: the tag's text and the text of the first  *)
(*            non-empty sibling after it                                    *)
(*   myprint  whether div#myprint is there, and the texts of its <li>      *)
(*   tables   the <table>s: rows of <td> texts                             *)
(*   alerts   the texts of div/p/span of class error, alert or warning     *)
(* get_text() is the text of all of them in document order, one per line.  *)

PageNodes(page) ==
    page.body
    \o Concat([i \in 1..Len(page.strongs) |->
                 <<page.strongs[i].tag, page.strongs[i].next>>])
    \o page.items
    \o Concat([i \in 1..Len(page.tables) |-> Concat(page.tables[i])])
    \o page.alerts

get_text(page) == Join(<<"nl">>, PageNodes(page))

\* Tag.get_text(strip=True) of a table: its cells, stripped, concatenated
TableText(table) ==
    LET cells == Concat(table)
    IN Concat([i \in 1..Len(cells) |-> Strip(cells[i])])

success_keywords ==
    << <<"gua", "hao", "cheng", "gong">>,
       <<"yu", "yue", "cheng", "gong">>,
       <<"gua", "hao", "wan", "cheng">>,
       <<"yi3", "gua", "hao">>,
       <<"cheng", "gong", "gua", "hao">> >>

full_keywords ==
    << <<"man", "hao">>,
       <<"qing", "gai", "gua">>,
       <<"yi3", "e", "man">>,
       <<"e", "man">>,
       <<"yi3", "gua", "man">> >>

error_keywords ==
    << <<"yan", "zheng", "ma", "cuo", "wu4">>,
       <<"shen", "fen", "zheng", "cuo", "wu4">>,
       <<"sheng", "ri", "cuo", "wu4">>,
       <<"zi", "liao", "cuo", "wu4">> >>

\* `for keyword in keywords: if keyword in text`: the first keyword of the
\* list that occurs in the text, 0 if none does
FirstKeyword(keywords, text) ==
    IF \E i \in 1..Len(keywords) : Contains(text, keywords[i])
    THEN CHOOSE i \in 1..Len(keywords) :
             /\ Contains(text, keywords[i])
             /\ \A j \in 1..(i - 1) : ~Contains(text, keywords[j])
    ELSE 0

\* the verdict on the status text of a result block (lines 275-283, 309-317)
StatusVerdict(res) ==
    IF \/ Contains(res["status"], <<"man", "hao">>)
       \/ Contains(res["status"], <<"qing", "gai", "gua">>)
    THEN Put(Put(res, "success", FALSE), "full", TRUE)
    ELSE IF \/ Contains(res["status"], <<"cheng", "gong">>)
            \/ Contains(res["status"], <<"yi3", "gua", "hao">>)
    THEN Put(Put(res, "success", TRUE), "full", FALSE)
    ELSE Put(Put(res, "success", FALSE), "full", FALSE)

LblDate == <<"kan", "zhen", "ri", "qi", "fc">>
LblDept == <<"kan", "zhen", "ke", "bie", "fc">>
LblDoctor == <<"kan", "zhen", "yi1", "shi", "fc">>
LblStatus == <<"gua", "hao", "jie2", "guo", "fc">>

\* the loop over the <li> of div#myprint (lines 262-271)
RECURSIVE ScanItems(_, _)
ScanItems(items, res) ==
    IF items = <<>> THEN res
    ELSE LET text == Strip(Head(items))
             upd ==
                 IF Contains(text, LblDate)
                 THEN Put(res, "appointment_date", Strip(Replace(text, LblDate, <<>>)))
                 ELSE IF Contains(text, LblDept)
                 THEN Put(res, "department", Strip(Replace(text, LblDept, <<>>)))
                 ELSE IF Contains(text, LblDoctor)
                 THEN Put(res, "doctor", Strip(Replace(text, LblDoctor, <<>>)))
                 ELSE IF Contains(text, LblStatus)
                 THEN Put(res, "status", Strip(Replace(text, LblStatus, <<>>)))
                 ELSE res
         IN ScanItems(Tail(items), upd)

\* the loop over the <tr> of a table (lines 293-305)
RECURSIVE ScanRows(_, _)
ScanRows(rows, res) ==
    IF rows = <<>> THEN res
    ELSE LET cols == Head(rows)
             key == Strip(cols[1])
             value == Strip(cols[2])
             upd ==
                 IF Len(cols) < 2 THEN res
                 ELSE IF Contains(key, <<"ri", "qi">>)
                 THEN Put(res, "appointment_date", value)
                 ELSE IF Contains(key, <<"ke", "bie">>)
                 THEN Put(res, "department", value)
                 ELSE IF Contains(key, <<"yi1", "shi">>)
                 THEN Put(res, "doctor", value)
                 ELSE IF Contains(key, <<"jie2", "guo">>)
                 THEN Put(res, "status", value)
                 ELSE res
         IN ScanRows(Tail(rows), upd)

\* the loop over the tables (lines 288-318): the dict of the first table
\* that is a result table and has a status, EmptyDict if there is none
RECURSIVE ScanTables(_)
ScanTables(tables) ==
    IF tables = <<>> THEN EmptyDict
    ELSE LET table_text == TableText(Head(tables))
             res == ScanRows(Head(tables), EmptyDict)
         IN IF /\ \/ Contains(table_text, <<"gua", "hao", "jie2", "guo">>)
                  \/ Contains(table_text, <<"kan", "zhen", "ri", "qi">>)
               /\ Has(res, "status")
            THEN StatusVerdict(res)
            ELSE ScanTables(Tail(tables))

----------------------------------------------------------------------------
(* extract_details_from_page: the <strong> scan and the regex fallbacks *)

\* the loop over the <strong> tags (lines 348-366)
RECURSIVE ScanStrongs(_, _)
ScanStrongs(strongs, res) ==
    IF strongs = <<>> THEN res
    ELSE LET tag_text == Strip(Head(strongs).tag)
             next_text == Strip(Head(strongs).next)
             upd ==
                 IF Contains(tag_text, <<"ri", "qi">>) /\ ~GetText(res, "appointment_date")
                 THEN Put(res, "appointment_date", next_text)
                 ELSE IF Contains(tag_text, <<"ke", "bie">>) /\ ~GetText(res, "department")
                 THEN Put(res, "department", next_text)
                 ELSE IF Contains(tag_text, <<"yi1", "shi">>) /\ ~GetText(res, "doctor")
                 THEN Put(res, "doctor", next_text)
                 ELSE res
         IN ScanStrongs(Tail(strongs), upd)

\* the first position from i on that holds no white space (\s* is greedy)
RECURSIVE SkipWhite(_, _)
SkipWhite(text, i) ==
    IF i <= Len(text) /\ text[i] \in White THEN SkipWhite(text, i + 1) ELSE i

\* the last position of the run of non-white characters that starts at i
RECURSIVE RunEnd(_, _)
RunEnd(text, i) ==
    IF i + 1 <= Len(text) /\ text[i + 1] \notin White THEN RunEnd(text, i + 1) ELSE i

\* group 1 of  label[fc:]?\s*([^\s]+)  matched at position i, <<>> if the
\* pattern does not match there.  The optional colon is taken first and
\* given back when nothing but white space follows it.
LabelGroupAt(text, label, i) ==
    LET p == i + Len(label)
        colon == p <= Len(text) /\ text[p] \in {"fc", ":"}
        q1 == SkipWhite(text, p + 1)
        q0 == SkipWhite(text, p)
    IN IF ~StartsAt(text, label, i) THEN <<>>
       ELSE IF colon /\ q1 <= Len(text) THEN Slice(text, q1, RunEnd(text, q1))
       ELSE IF q0 <= Len(text) THEN Slice(text, q0, RunEnd(text, q0))
       ELSE <<>>

\* group 1 of  (\d{4}[-/]\d{1,2}[-/]\d{1,2})  matched at position i, <<>>
\* if the pattern does not match there
DateGroupAt(text, i) ==
    LET dig(j) == j >= 1 /\ j <= Len(text) /\ text[j] \in Digit
        sep(j) == j >= 1 /\ j <= Len(text) /\ text[j] \in {"-", "/"}
        year == dig(i) /\ dig(i + 1) /\ dig(i + 2) /\ dig(i + 3) /\ sep(i + 4)
        \* with a month of m digits: the separator and one digit of the day
        rest(m) == (\A j \in (i + 5)..(i + 4 + m) : dig(j))
                   /\ sep(i + 5 + m) /\ dig(i + 6 + m)
        m == IF rest(2) THEN 2 ELSE 1
        n == IF dig(i + 7 + m) THEN 2 ELSE 1
    IN IF year /\ (rest(2) \/ rest(1)) THEN Slice(text, i, i + 5 + m + n) ELSE <<>>

\* re.search: group 1 of the leftmost match, <<>> if there is no match
SearchLabel(text, label) ==
    IF \E i \in 1..Len(text) : LabelGroupAt(text, label, i) # <<>>
    THEN LabelGroupAt(text, label,
                      CHOOSE i \in 1..Len(text) :
                          /\ LabelGroupAt(text, label, i) # <<>>
                          /\ \A j \in 1..(i - 1) : LabelGroupAt(text, label, j) = <<>>)
    ELSE <<>>

SearchDate(text) ==
    IF \E i \in 1..Len(text) : DateGroupAt(text, i) # <<>>
    THEN DateGroupAt(text,
                     CHOOSE i \in 1..Len(text) :
                         /\ DateGroupAt(text, i) # <<>>
                         /\ \A j \in 1..(i - 1) : DateGroupAt(text, j) = <<>>)
    ELSE <<>>

\* `if match and not result.get(key): result[key] = match.group(1)`
Fallback(res, key, group) ==
    IF group # <<>> /\ ~GetText(res, key) THEN Put(res, key, group) ELSE res

StatusSuccess == <<"gua", "hao", "cheng", "gong">>

extract_details_from_page(page, page_text) ==
    LET r0 == ScanStrongs(page.strongs, EmptyDict)
        r1 == Fallback(r0, "appointment_date",
                       SearchLabel(page_text, <<"kan", "zhen", "ri", "qi">>))
        r2 == Fallback(r1, "department", SearchLabel(page_text, <<"ke", "bie">>))
        r3 == Fallback(r2, "doctor", SearchLabel(page_text, <<"yi1", "shi">>))
        r4 == Fallback(r3, "appointment_date", SearchDate(page_text))
    IN Put(r4, "status", StatusSuccess)

----------------------------------------------------------------------------
(* parse_result and make_appointment *)

PreviewLen == 500
AlertLen == 100
MaxAlerts == 3

StatusFull == <<"yi3", "man", "hao", "huo", "wu2", "ke3", "yong", "shi2", "duan">>
PageErrorPrefix == <<"ye", "mian", "cuo", "wu4", ":", " ">>
UnparsedPrefix ==
    <<"wu2", "fa", "jie3", "xi", "jie2", "guo", "fcomma", "ye", "mian", "nei",
      "rong", ":", " ">>
ParseExcPrefix == <<"jie3", "xi", "yi4", "chang", ":", " ">>
Ellipsis == <<".", ".", ".">>
IOErrorText == <<"OSError">>

\* an exception that leaves the function, carrying str(e)
Raise(msg) == [raised |-> msg]
Raised(r) == Has(r, "raised")

\* {'success': False, 'error': msg}
Failure(msg) == [success |-> FALSE, error |-> msg]

\* rule 1 of parse_result (lines 223-232)
SuccessRule(page, page_text) ==
    Put(Put(extract_details_from_page(page, page_text), "success", TRUE), "full", FALSE)

\* rule 2 (lines 234-243)
FullRule == [success |-> FALSE, full |-> TRUE, status |-> StatusFull]

\* rule 3 (lines 245-254)
ErrorRule(keyword) == [success |-> FALSE, error |-> keyword, full |-> FALSE]

\* rules 4 to 7 (lines 256-333)
BlockRules(page, page_text) ==
    LET items == IF page.myprint THEN ScanItems(page.items, EmptyDict) ELSE EmptyDict
        tabled == ScanTables(page.tables)
        shown == Slice(page.alerts, 1,
                       IF Len(page.alerts) < MaxAlerts THEN Len(page.alerts) ELSE MaxAlerts)
        error_msg == Join(<<" ", "|", " ">>, [i \in 1..Len(shown) |-> Strip(shown[i])])
        spaced == Replace(Replace(page_text, <<"nl">>, <<" ">>), <<"cr">>, <<>>)
        text_preview == Take(Strip(spaced), PreviewLen)
    IN IF page.myprint /\ Has(items, "status") THEN StatusVerdict(items)
       ELSE IF tabled # EmptyDict THEN tabled
       ELSE IF page.alerts # <<>>
       THEN Failure(PageErrorPrefix \o Take(error_msg, AlertLen))
       ELSE Failure(UnparsedPrefix \o text_preview \o Ellipsis)

\* the order in which the page-level keyword lists are consulted
\* (lines 223, 234, 245)
KeywordRule(page_text) ==
    IF FirstKeyword(success_keywords, page_text) # 0 THEN "success"
    ELSE IF FirstKeyword(full_keywords, page_text) # 0 THEN "full"
    ELSE IF FirstKeyword(error_keywords, page_text) # 0 THEN "error"
    ELSE "none"

\* fs: which of the debug files can be written: "ok" both, "debug_fails"
\* only error_response.html, "all_fail" neither
parse_result(html_content, fs) ==
    LET page_text == get_text(html_content)
        rule == KeywordRule(page_text)
    IN IF fs = "all_fail" THEN Raise(IOErrorText)
       ELSE IF fs = "debug_fails" THEN Failure(ParseExcPrefix \o IOErrorText)
       ELSE IF rule = "success" THEN SuccessRule(html_content, page_text)
       ELSE IF rule = "full" THEN FullRule
       ELSE IF rule = "error"
       THEN ErrorRule(error_keywords[FirstKeyword(error_keywords, page_text)])
       ELSE BlockRules(html_content, page_text)

TimeoutText == <<"qing", "qiu", "chao", "shi2">>
HttpErrorText == <<"HTTPError">>
ConnErrorText == <<"ConnectionError">>

TransportFailures == {"timeout", "http_error", "conn_error"}

\* variant: the request has no try/except around it
make_appointment_uncaught(resp) ==
    IF resp.kind \in TransportFailures THEN Raise(ConnErrorText)
    ELSE LET r == parse_result(resp.page, resp.fs)
         IN IF Raised(r) THEN Failure(r["raised"]) ELSE r

\* resp: what the POST met: a timeout, a non-2xx status, a transport error,
\* or a page (with the state of the debug files)
make_appointment(resp) ==
    IF resp.kind = "timeout" THEN Failure(TimeoutText)
    ELSE IF resp.kind = "http_error" THEN Failure(HttpErrorText)
    ELSE IF resp.kind = "conn_error" THEN Failure(ConnErrorText)
    ELSE LET r == parse_result(resp.page, resp.fs)
         IN IF Raised(r) THEN Failure(r["raised"]) ELSE r

----------------------------------------------------------------------------
(* The pages of the model *)

D1 == <<"2", "0", "2", "5", "/", "1", "2", "/", "1", "7">>
D2 == <<"2", "0", "2", "5", "/", "1", "2", "/", "2", "7">>

TSuccess == <<"gua", "hao", "cheng", "gong">>
TBooked == <<"yi3", "gua", "hao">>
TFull == <<"man", "hao">>
TFullE == <<"yi3", "e", "man">>
TError == <<"yan", "zheng", "ma", "cuo", "wu4">>
TError2 == <<"zi", "liao", "cuo", "wu4">>
TOther == <<"qi2", "ta">>
TDone == <<"yi3", "cheng", "gong">>
TDateLine == <<"kan", "zhen", "ri", "qi", "fc">> \o D2

Vocab == {TSuccess, TBooked, TFull, TFullE, TError, TError2, TOther, TDateLine}

SeqsUpTo(S, n) == UNION {[1..k -> S] : k \in 0..n}

ItemChoices ==
    { <<>>,
      <<LblDate \o D1, LblStatus \o TDone>>,
      <<LblStatus \o TOther>>,
      <<LblDoctor \o TOther>> }

RowResult(v) == << <<"gua", "hao", "jie2", "guo">>, v >>
RowDate(v) == << <<"kan", "zhen", "ri", "qi">>, v >>

TableChoices ==
    { <<>>,
      << <<RowResult(TDone), RowDate(D1)>> >>,
      << <<RowResult(TOther)>> >> }

AlertChoices == { <<>>, <<TOther>> }

StrongChoices ==
    { <<>>,
      <<[tag |-> <<"ri", "qi">>, next |-> D1]>>,
      <<[tag |-> <<"ke", "bie">>, next |-> <<>>]>> }

Pages ==
    { [body |-> b, strongs |-> st, myprint |-> mp, items |-> it, tables |-> tb,
       alerts |-> al] :
        b \in SeqsUpTo(Vocab, MaxBody), st \in StrongChoices, mp \in BOOLEAN,
        it \in ItemChoices, tb \in TableChoices, al \in AlertChoices }

WellFormed(page) == page.myprint \/ page.items = <<>>

Plain(b) ==
    [body |-> b, strongs |-> <<>>, myprint |-> FALSE, items |-> <<>>,
     tables |-> <<>>, alerts |-> <<>>]

EmptyPage == Plain(<<>>)

\* the responses a registration POST of a run meets
RunPages ==
    { Plain(<<TSuccess, D1>>), Plain(<<TSuccess, TDateLine>>), Plain(<<TFull>>),
      Plain(<<TFull, TSuccess>>), Plain(<<TError>>), Plain(<<TOther>>) }

Responses ==
    { [kind |-> k, page |-> EmptyPage, fs |-> "ok"] :
          k \in {"timeout", "http_error", "conn_error"} }
    \cup { [kind |-> "ok", page |-> p, fs |-> "ok"] : p \in RunPages }
    \cup { [kind |-> "ok", page |-> Plain(<<TSuccess, D1>>), fs |-> f] :
          f \in {"debug_fails", "all_fail"} }

NoResp == [kind |-> "none", page |-> EmptyPage, fs |-> "ok"]

\* make_appointment on each response of the model, evaluated once
Outcome == [resp \in Responses |-> make_appointment(resp)]

----------------------------------------------------------------------------
(* should_skip_check, init_session, send_email_notification and the        *)
(* pieces of batch_registration                                            *)

\* variant: the pause is never honoured
should_skip_check_never(f, t) == [skip |-> FALSE, file |-> f, wrote |-> FALSE]

\* variant: the run is still skipped at pause_until itself
should_skip_check_le(f, t) ==
    LET state == load_state(f)
        pause_until == state.pause_until
        clearedFile == save_state([state EXCEPT !.pause_until = Null])
    IN IF pause_until.k = "null"
       THEN [skip |-> FALSE, file |-> f, wrote |-> FALSE]
       ELSE IF CanParse(pause_until) /\ t <= fromisoformat(pause_until)
       THEN [skip |-> TRUE, file |-> f, wrote |-> FALSE]
       ELSE [skip |-> FALSE, file |-> clearedFile, wrote |-> TRUE]

\* variant: clearing the pause saves a fresh default state
should_skip_check_fresh(f, t) ==
    LET state == load_state(f)
        pause_until == state.pause_until
        clearedFile == save_state(DefaultState)
    IN IF pause_until.k = "null"
       THEN [skip |-> FALSE, file |-> f, wrote |-> FALSE]
       ELSE IF CanParse(pause_until) /\ t < fromisoformat(pause_until)
       THEN [skip |-> TRUE, file |-> f, wrote |-> FALSE]
       ELSE [skip |-> FALSE, file |-> clearedFile, wrote |-> TRUE]

\* variant: a pause that cannot be parsed is left alone and skips the run
should_skip_check_bad(f, t) ==
    LET state == load_state(f)
        pause_until == state.pause_until
        clearedFile == save_state([state EXCEPT !.pause_until = Null])
    IN IF pause_until.k = "null"
       THEN [skip |-> FALSE, file |-> f, wrote |-> FALSE]
       ELSE IF ~CanParse(pause_until) \/ t < fromisoformat(pause_until)
       THEN [skip |-> TRUE, file |-> f, wrote |-> FALSE]
       ELSE [skip |-> FALSE, file |-> clearedFile, wrote |-> TRUE]

\* the verdict, the state file afterwards, and whether save_state was called
should_skip_check(f, t) ==
    LET state == load_state(f)
        pause_until == state.pause_until
        clearedFile == save_state([state EXCEPT !.pause_until = Null])
    IN IF pause_until.k = "null"
       THEN [skip |-> FALSE, file |-> f, wrote |-> FALSE]
       ELSE IF CanParse(pause_until)
       THEN IF t < fromisoformat(pause_until)
            THEN [skip |-> TRUE, file |-> f, wrote |-> FALSE]
            ELSE [skip |-> FALSE, file |-> clearedFile, wrote |-> TRUE]
       ELSE [skip |-> FALSE, file |-> clearedFile, wrote |-> TRUE]

\* the GETs of init_session, in order
SessionUrls == <<"index.php", "register_action.php">>

HttpResults == {"ok", "timeout", "http_error", "conn_error"}

\* variant: a failed GET does not end the run
AfterGetIgnore(n, r) == IF n < Len(SessionUrls) THEN "session" ELSE "attempt"

\* where the run goes after the n-th session GET ended with r
AfterGet(n, r) ==
    IF r # "ok" THEN "init_failed"
    ELSE IF n < Len(SessionUrls) THEN "session"
    ELSE "attempt"

dates_to_try == <<"2025/12/17", "2025/12/27", "2026/01/03">>
doctors_to_try == <<"4561">>

\* the order in which the nested loops visit (date, doctor)
Candidates ==
    [n \in 1..(Len(dates_to_try) * Len(doctors_to_try)) |->
        <<dates_to_try[((n - 1) \div Len(doctors_to_try)) + 1],
          doctors_to_try[((n - 1) % Len(doctors_to_try)) + 1]>>]

\* variant: the success branch is taken on result.get('full')
AfterAttemptOnFull(out, i) ==
    IF GetBool(out, "full") THEN "notify"
    ELSE IF i < Len(Candidates) THEN "attempt"
    ELSE "finish"

\* variant: a full slot ends the loop
AfterAttemptEarly(out, i) ==
    IF GetBool(out, "success") THEN "notify"
    ELSE IF GetBool(out, "full") THEN "finish"
    ELSE IF i < Len(Candidates) THEN "attempt"
    ELSE "finish"

\* variant: the loop never reaches its end
AfterAttemptLoop(out, i) == IF GetBool(out, "success") THEN "notify" ELSE "attempt"

\* where the run goes after the i-th attempt returned out
AfterAttempt(out, i) ==
    IF GetBool(out, "success") THEN "notify"
    ELSE IF i < Len(Candidates) THEN "attempt"
    ELSE "finish"

\* variant: the success branch lacks its return
AfterNotifyGoOn(i) == IF i < Len(Candidates) THEN "attempt" ELSE "finish"

\* where the run goes after the notification of a success at attempt i
AfterNotify(i) == "done"

\* what sending the mail meets: no SMTP server configured, an SMTP
\* failure, or delivery
MailEnvs == {"no_server", "smtp_error", "sent"}

send_email_notification(env) == env = "sent"

\* variant: the count is set, not incremented
CooldownUpdateFirst(state, t) ==
    [state EXCEPT !.pause_until = isoformat(t + PauseHours),
                  !.last_notification_time = isoformat(t),
                  !.notification_count = 1]

\* lines 495-499
CooldownUpdate(state, t) ==
    [state EXCEPT !.pause_until = isoformat(t + PauseHours),
                  !.last_notification_time = isoformat(t),
                  !.notification_count = @ + 1]

\* variant: the cooldown is stored whether or not the mail was sent
AfterSuccessFileAlways(f, sent, t) == save_state(CooldownUpdate(load_state(f), t))

\* the state file after the success branch (lines 493-500)
AfterSuccessFile(f, sent, t) ==
    IF sent THEN save_state(CooldownUpdate(load_state(f), t)) ELSE f

\* variant: last_check is saved in a fresh state instead of the loaded one
CheckedUpdateReset(state, t) == [DefaultState EXCEPT !.last_check = isoformat(t)]

\* lines 518-519
CheckedUpdate(state, t) == [state EXCEPT !.last_check = isoformat(t)]

\* checkDoc.py and verify_config.py at rest
NoEnv ==
    [MACKAY_ID_NUMBER |-> <<>>, MACKAY_BIRTHDAY |-> <<>>,
     MACKAY_NOTIFICATION_EMAIL |-> <<>>, SMTP_SERVER |-> <<>>,
     SMTP_USERNAME |-> <<>>, SMTP_PASSWORD |-> <<>>,
     SMTP_SENDER |-> [set |-> FALSE, v |-> <<>>],
     SMTP_PORT |-> [set |-> FALSE, v |-> <<>>]]

NoReport == [all_ok |-> FALSE, primary |-> <<>>, mail |-> "none"]

BesideIdle ==
    /\ email_config = FALSE
    /\ mpc = "off"
    /\ cycles = 0
    /\ error_count = 0
    /\ fails = 0
    /\ driver = 0
    /\ checked = <<>>
    /\ found = <<>>
    /\ sends = <<>>
    /\ cycleEnd = "none"
    /\ sentBefore = {}
    /\ environ = NoEnv
    /\ report = NoReport

\* the exit code of main (lines 529-551): what batch_registration returned,
\* or "exception" when an exception left it
main(outcome) == IF outcome = "exception" THEN 1 ELSE 0

----------------------------------------------------------------------------
(* The runs *)

InitFiles ==
    { Absent, Garbled,
      save_state(DefaultState),
      save_state([DefaultState EXCEPT !.pause_until = Bad]),
      save_state(CooldownUpdate(DefaultState, 0 - PauseHours)),
      save_state(CooldownUpdate([DefaultState EXCEPT !.notification_count = MaxCount], -1)),
      save_state(CheckedUpdate(CooldownUpdate(DefaultState, -1), -1)) }

Init ==
    /\ now = 0
    /\ file \in InitFiles
    /\ run = 1
    /\ pc = "idle"
    /\ idx = 1
    /\ result = "none"
    /\ gets = <<>>
    /\ posts = <<>>
    /\ outs = <<>>
    /\ lastResp = NoResp
    /\ lastOut = EmptyDict
    /\ notified = <<>>
    /\ entryFile = file
    /\ entryTime = now
    /\ writes = <<>>
    /\ succAt = -1
    /\ succRun = 0
    /\ exit = -1
    /\ mem = DefaultState
    /\ disk = "none"
    /\ loaded = DefaultState
    /\ err = "none"
    /\ BesideIdle

\* lines 437-440
Entry ==
    /\ pc = "idle"
    /\ LET r == should_skip_check(file, now)
       IN /\ file' = r.file
          /\ writes' = IF r.wrote THEN Append(writes, "clear") ELSE writes
          /\ pc' = IF r.skip THEN "done" ELSE "session"
          /\ result' = IF r.skip THEN "skipped" ELSE result
          /\ exit' = IF r.skip THEN main("skipped") ELSE exit
    /\ entryTime' = now
    /\ UNCHANGED store
    /\ UNCHANGED beside
    /\ UNCHANGED <<now, run, idx, gets, posts, outs, lastResp, lastOut, notified,
                   entryFile, succAt, succRun>>

\* one GET of init_session (lines 128-137, 443-447)
SessionGet ==
    /\ pc = "session"
    /\ \E r \in HttpResults :
          LET n == Len(gets) + 1
              next == AfterGet(n, r)
          IN /\ gets' = Append(gets, <<SessionUrls[n], r>>)
             /\ pc' = IF next = "init_failed" THEN "done" ELSE next
             /\ result' = IF next = "init_failed" THEN "init_failed" ELSE result
             /\ exit' = IF next = "init_failed" THEN main("init_failed") ELSE exit
    /\ UNCHANGED store
    /\ UNCHANGED beside
    /\ UNCHANGED <<now, file, run, idx, posts, outs, lastResp, lastOut, notified,
                   entryFile, entryTime, writes, succAt, succRun>>

\* one pass of the loop body (lines 468-513)
Attempt ==
    /\ pc = "attempt"
    /\ idx <= Len(Candidates)
    /\ \E resp \in Responses :
          LET out == Outcome[resp]
              next == AfterAttempt(out, idx)
          IN /\ posts' = Append(posts, Candidates[idx])
             /\ outs' = Append(outs, GetBool(out, "success"))
             /\ lastResp' = resp
             /\ lastOut' = out
             /\ pc' = next
             /\ idx' = IF next = "attempt" THEN idx + 1 ELSE idx
    /\ UNCHANGED <<now, file, run, result, gets, notified, entryFile, entryTime,
                   writes, succAt, succRun, exit>>
    /\ UNCHANGED store
    /\ UNCHANGED beside

\* the success branch (lines 488-504)
Notify ==
    /\ pc = "notify"
    /\ \E env \in MailEnvs :
          LET sent == send_email_notification(env)
          IN /\ notified' = Append(notified, lastOut)
             /\ file' = AfterSuccessFile(file, sent, now)
             /\ writes' = IF sent THEN Append(writes, "cooldown") ELSE writes
    /\ pc' = AfterNotify(idx)
    /\ idx' = IF pc' = "attempt" THEN idx + 1 ELSE idx
    /\ result' = IF pc' = "done" THEN "success" ELSE result
    /\ exit' = IF pc' = "done" THEN main("success") ELSE exit
    /\ UNCHANGED store
    /\ UNCHANGED beside
    /\ succAt' = now
    /\ succRun' = run
    /\ UNCHANGED <<now, run, gets, posts, outs, lastResp, lastOut, entryFile,
                   entryTime>>

\* the end of the loop (lines 515-522)
Finish ==
    /\ pc = "finish"
    /\ file' = save_state(CheckedUpdate(load_state(file), now))
    /\ writes' = Append(writes, "last_check")
    /\ result' = "no_availability"
    /\ exit' = main("no_availability")
    /\ pc' = "done"
    /\ UNCHANGED store
    /\ UNCHANGED beside
    /\ UNCHANGED <<now, run, idx, gets, posts, outs, lastResp, lastOut, notified,
                   entryFile, entryTime, succAt, succRun>>

\* an hour passes
Tick ==
    /\ now < MaxTime
    /\ now' = now + 1
    /\ UNCHANGED <<file, run, pc, idx, result, gets, posts, outs, lastResp,
                   lastOut, notified, entryFile, entryTime, writes, succAt, succRun,
                   exit>>
    /\ UNCHANGED store
    /\ UNCHANGED beside

\* the scheduled job starts the script again
StartRun ==
    /\ pc = "done"
    /\ run < MaxRuns
    /\ run' = run + 1
    /\ pc' = "idle"
    /\ idx' = 1
    /\ result' = "none"
    /\ gets' = <<>>
    /\ posts' = <<>>
    /\ outs' = <<>>
    /\ lastResp' = NoResp
    /\ lastOut' = EmptyDict
    /\ notified' = <<>>
    /\ entryFile' = file
    /\ entryTime' = now
    /\ writes' = <<>>
    /\ exit' = -1
    /\ UNCHANGED <<now, file, succAt, succRun>>
    /\ UNCHANGED store
    /\ UNCHANGED beside

Step == Entry \/ SessionGet \/ Attempt \/ Finish

Next == Entry \/ SessionGet \/ Attempt \/ Notify \/ Finish \/ Tick \/ StartRun

Spec == Init /\ [][Next]_vars

\* every HTTP call has timeout=30 and every sleep is finite, so a run that
\* is not sending mail takes its next step
FairSpec == Spec /\ WF_vars(Step)

----------------------------------------------------------------------------
(* The classifier on its own: parse_result applied to each page *)

FsStates == {"ok", "debug_fails", "all_fail"}

ParseInputs ==
    { [kind |-> "ok", page |-> p, fs |-> "ok"] : p \in {q \in Pages : WellFormed(q)} }
    \cup { [kind |-> "ok", page |-> p, fs |-> f] : p \in RunPages, f \in FsStates }

InitParse ==
    /\ now = 0
    /\ file = Absent
    /\ run = 1
    /\ pc = "parse"
    /\ idx = 1
    /\ result = "none"
    /\ gets = <<>>
    /\ posts = <<>>
    /\ outs = <<>>
    /\ lastResp \in ParseInputs
    /\ lastOut = EmptyDict
    /\ notified = <<>>
    /\ entryFile = file
    /\ entryTime = now
    /\ writes = <<>>
    /\ succAt = -1
    /\ succRun = 0
    /\ exit = -1
    /\ mem = DefaultState
    /\ disk = "none"
    /\ loaded = DefaultState
    /\ err = "none"
    /\ BesideIdle

Classify ==
    /\ pc = "parse"
    /\ lastOut' = parse_result(lastResp.page, lastResp.fs)
    /\ pc' = "parsed"
    /\ UNCHANGED <<now, file, run, idx, result, gets, posts, outs, lastResp,
                   notified, entryFile, entryTime, writes, succAt, succRun, exit>>
    /\ UNCHANGED store
    /\ UNCHANGED beside

NextParse == Classify

SpecParse == InitParse /\ [][NextParse]_vars

----------------------------------------------------------------------------
(* The state store on its own: save_state(mem) on a state file, met by a   *)
(* failure or a kill of the process, and load_state afterwards             *)

StoreStates ==
    [last_notification_time : {Null, isoformat(0)},
     pause_until : {Null, Bad} \cup {isoformat(t) : t \in 0..PauseHours},
     notification_count : 0..MaxCount,
     last_check : {Null, isoformat(0)}]

\* how a write ends: all of it written; open() raises; json.dump raises
\* after open() has truncated the file; the process is killed after open()
WriteEnds == {"written", "open_fails", "write_fails", "killed"}

\* the state file after save_state(state) ended in `end` with `cut` tokens
\* written (lines 94-95: open(..., 'w') truncates, json.dump writes on)
SaveEnd(f, state, end, cut) ==
    IF end = "written" THEN save_state(state)
    ELSE IF end = "open_fails" THEN f
    ELSE [kind |-> "garbled", data |-> Slice(json_dump(state), 1, cut)]

\* variant: save_state without its try/except
SaveRaisesUncaught(end) == end \in {"open_fails", "write_fails"}

\* whether an exception leaves save_state (lines 93-97: it is logged)
SaveRaises(end) == FALSE

\* variant: load_state that lets json.load's exception through
LoadRaisesUncaught(f) == f.kind # "absent" /\ ~JsonValid(f.data)

\* whether an exception leaves load_state (lines 76-81: it is logged)
LoadRaises(f) == FALSE

InitStore ==
    /\ now = 0
    /\ file \in InitFiles
    /\ run = 1
    /\ pc = "store"
    /\ idx = 1
    /\ result = "none"
    /\ gets = <<>>
    /\ posts = <<>>
    /\ outs = <<>>
    /\ lastResp = NoResp
    /\ lastOut = EmptyDict
    /\ notified = <<>>
    /\ entryFile = file
    /\ entryTime = now
    /\ writes = <<>>
    /\ succAt = -1
    /\ succRun = 0
    /\ exit = -1
    /\ mem \in StoreStates
    /\ disk = "none"
    /\ loaded = DefaultState
    /\ err = "none"
    /\ BesideIdle

\* save_state(mem)
StoreSave ==
    /\ pc = "store"
    /\ \E end \in WriteEnds, cut \in 0..(Len(json_dump(mem)) - 1) :
          /\ file' = SaveEnd(file, mem, end, cut)
          /\ disk' = end
          /\ err' = IF SaveRaises(end) THEN "exception" ELSE err
    /\ pc' = "saved"
    /\ UNCHANGED <<now, run, idx, result, gets, posts, outs, lastResp, lastOut,
                   notified, entryFile, entryTime, writes, succAt, succRun, exit,
                   mem, loaded>>
    /\ UNCHANGED beside

\* load_state() by the process, or by the next one after a kill
StoreLoad ==
    /\ pc = "saved"
    /\ loaded' = load_state(file)
    /\ err' = IF LoadRaises(file) THEN "exception" ELSE err
    /\ pc' = "loaded"
    /\ UNCHANGED <<now, file, run, idx, result, gets, posts, outs, lastResp,
                   lastOut, notified, entryFile, entryTime, writes, succAt, succRun,
                   exit, mem, disk>>
    /\ UNCHANGED beside

NextStore == StoreSave \/ StoreLoad

SpecStore == InitStore /\ [][NextStore]_vars

----------------------------------------------------------------------------
(* checkDoc.py: DoctorMonitor.  The loop of monitor, one check of a URL at *)
(* a time                                                                   *)

MaxCycles == 4
MaxRows == 1
RestartAfter == 3

\* the variables of the registrar, at rest while another script runs
RunIdle ==
    /\ now = 0
    /\ file = Absent
    /\ run = 1
    /\ pc = "off"
    /\ idx = 1
    /\ result = "none"
    /\ gets = <<>>
    /\ posts = <<>>
    /\ outs = <<>>
    /\ lastResp = NoResp
    /\ lastOut = EmptyDict
    /\ notified = <<>>
    /\ entryFile = Absent
    /\ entryTime = 0
    /\ writes = <<>>
    /\ succAt = -1
    /\ succRun = 0
    /\ mem = DefaultState
    /\ disk = "none"
    /\ loaded = DefaultState
    /\ err = "none"

registrar ==
    <<now, file, run, pc, idx, result, gets, posts, outs, lastResp, lastOut,
      notified, entryFile, entryTime, writes, succAt, succRun, mem, disk, loaded,
      err>>

\* the list of URLs given to the constructor
urls == <<"docid=DOC3208F", "docid=DOC3491G">>

TCanBook == <<"ke3", "gua", "hao">>
TCanPick == <<"ke3", "xuan", "ze">>
TNoRoom == <<"e", "man">>
TDoctor == <<"you", "xiang", "yu4">>
TSubstitute == <<"dai", "zhen", "yi1", "shi">>

\* the rows of a timetable: the status cell and the doctor cell
RowKinds ==
    { [status |-> TCanBook, doctor_name |-> TDoctor],
      [status |-> TNoRoom, doctor_name |-> TDoctor],
      [status |-> TCanPick, doctor_name |-> TSubstitute] }

\* lines 108-110
RowAvailable(row) ==
    /\ Strip(row.status) \in {TCanBook, TCanPick}
    /\ Strip(row.doctor_name) # TSubstitute
    /\ ~Contains(Strip(row.doctor_name), <<"dai", "zhen">>)

\* the loop over the rows of a table, the header row left out
\* (lines 93-121)
RECURSIVE ScanSchedule(_, _, _)
ScanSchedule(rows, row_idx, current_url) ==
    IF row_idx > Len(rows) THEN <<>>
    ELSE ( IF row_idx > 1 /\ RowAvailable(rows[row_idx])
           THEN << [url |-> current_url, at |-> row_idx, row |-> rows[row_idx]] >>
           ELSE <<>> )
         \o ScanSchedule(rows, row_idx + 1, current_url)

HeaderRow == [status |-> <<"zhuang", "tai">>, doctor_name |-> <<"yi1", "shi">>]

\* what a check of a URL meets: driver.get raises, a page without the
\* word for doctor, a page whose table cannot be parsed, a timetable
CheckResults ==
    { [kind |-> k, rows |-> <<>>] : k \in {"get_raises", "wrong_page", "parse_raises"} }
    \cup { [kind |-> "table", rows |-> <<HeaderRow>> \o r] : r \in SeqsUpTo(RowKinds, MaxRows) }

\* None or a list of slots (lines 129-146, 78-127)
check_doctor_availability(url, res) ==
    IF res.kind \in {"get_raises", "wrong_page"} THEN [none |-> TRUE, slots |-> <<>>]
    ELSE IF res.kind = "parse_raises" THEN [none |-> FALSE, slots |-> <<>>]
    ELSE [none |-> FALSE, slots |-> ScanSchedule(res.rows, 1, url)]

\* variant: a slot notified in an earlier cycle is not notified again
ShouldNotifyNew(available_slots, config, before) ==
    /\ config
    /\ \E i \in 1..Len(available_slots) : available_slots[i] \notin before

\* lines 266-271
ShouldNotify(available_slots, config, before) == available_slots # <<>> /\ config

\* variant: the count is kept after a cycle without exception
ResetCountKeep(count) == count

\* line 273
ResetCount(count) == 0

\* lines 276-285: the count after one more failing cycle, and whether the
\* driver is restarted
AfterError(count) ==
    IF count + 1 >= RestartAfter
    THEN [count |-> 0, restart |-> TRUE]
    ELSE [count |-> count + 1, restart |-> FALSE]

\* how the restart ends: done; driver.quit() raises; setup_driver fails
\* and calls sys.exit(1)
RestartEnds == {"ok", "quit_raises", "setup_fails"}

SlotSet(available_slots) == {available_slots[i] : i \in 1..Len(available_slots)}

InitMonitor ==
    /\ RunIdle
    /\ exit = -1
    /\ email_config \in BOOLEAN
    /\ mpc = "check"
    /\ cycles = 1
    /\ error_count = 0
    /\ fails = 0
    /\ driver = 1
    /\ checked = <<>>
    /\ found = <<>>
    /\ sends = <<>>
    /\ cycleEnd = "none"
    /\ sentBefore = {}
    /\ environ = NoEnv
    /\ report = NoReport

\* one pass of the loop of check_all_doctors (lines 235-247)
CheckUrl ==
    /\ mpc = "check"
    /\ Len(checked) < Len(urls)
    /\ \E res \in CheckResults :
          LET url == urls[Len(checked) + 1]
              available_slots == check_doctor_availability(url, res)
          IN /\ checked' = Append(checked, [url |-> url, got |-> available_slots])
             /\ found' = found \o available_slots.slots
    /\ mpc' = IF Len(checked') = Len(urls) THEN "decide" ELSE "check"
    /\ UNCHANGED <<email_config, cycles, error_count, fails, driver, sends,
                   cycleEnd, sentBefore, environ, report, exit>>
    /\ UNCHANGED registrar

\* the rest of the try block (lines 266-273)
Decide ==
    /\ mpc = "decide"
    /\ \E mail \in {"sent", "smtp_error"} :
          IF ShouldNotify(found, email_config, sentBefore)
          THEN /\ sends' = Append(sends, [slots |-> found, mail |-> mail])
               /\ sentBefore' = IF mail = "sent" THEN sentBefore \cup SlotSet(found)
                                ELSE sentBefore
          ELSE UNCHANGED <<sends, sentBefore>>
    /\ error_count' = ResetCount(error_count)
    /\ fails' = 0
    /\ cycleEnd' = "ok"
    /\ mpc' = "sleep"
    /\ UNCHANGED <<email_config, cycles, driver, checked, found, environ, report,
                   exit>>
    /\ UNCHANGED registrar

\* an exception leaves the try block (lines 275-285)
CycleRaises ==
    /\ mpc \in {"check", "decide"}
    /\ LET after == AfterError(error_count)
       IN \E end \in RestartEnds :
             /\ ~after.restart => end = "ok"
             /\ error_count' = IF end = "ok" THEN after.count ELSE error_count + 1
             /\ driver' = IF after.restart /\ end = "ok" THEN driver + 1 ELSE driver
             /\ mpc' = IF end = "ok" THEN "sleep" ELSE "stopped"
             /\ exit' = IF end = "setup_fails" THEN 1 ELSE exit
    /\ fails' = fails + 1
    /\ cycleEnd' = "raised"
    /\ UNCHANGED <<email_config, cycles, checked, found, sends, sentBefore,
                   environ, report>>
    /\ UNCHANGED registrar

\* time.sleep(check_interval) returns (line 287)
NextCycle ==
    /\ mpc = "sleep"
    /\ cycles < MaxCycles
    /\ cycles' = cycles + 1
    /\ checked' = <<>>
    /\ found' = <<>>
    /\ sends' = <<>>
    /\ cycleEnd' = "none"
    /\ mpc' = "check"
    /\ UNCHANGED <<email_config, error_count, fails, driver, sentBefore, environ,
                   report, exit>>
    /\ UNCHANGED registrar

\* KeyboardInterrupt (lines 289-290)
Interrupt ==
    /\ mpc \in {"check", "decide", "sleep"}
    /\ mpc' = "stopped"
    /\ UNCHANGED <<email_config, cycles, error_count, fails, driver, checked,
                   found, sends, cycleEnd, sentBefore, environ, report, exit>>
    /\ UNCHANGED registrar

NextMonitor == CheckUrl \/ Decide \/ CycleRaises \/ NextCycle \/ Interrupt

SpecMonitor == InitMonitor /\ [][NextMonitor]_vars

----------------------------------------------------------------------------
(* verify_config.py *)

MaxEmailLen == 3
IdLen == 10
BirthdayLen == 7

\* s.split(sep) for a separator of one character
RECURSIVE Split(_, _)
Split(s, sep) ==
    IF \E i \in 1..Len(s) : s[i] = sep
    THEN LET at == CHOOSE i \in 1..Len(s) :
                       s[i] = sep /\ \A j \in 1..(i - 1) : s[j] # sep
         IN <<Slice(s, 1, at - 1)>> \o Split(Slice(s, at + 1, Len(s)), sep)
    ELSE <<s>>

\* [e.strip() for e in parts if e.strip()]  (line 47)
RECURSIVE StripKept(_)
StripKept(parts) ==
    IF parts = <<>> THEN <<>>
    ELSE (IF Strip(Head(parts)) # <<>> THEN <<Strip(Head(parts))>> ELSE <<>>)
         \o StripKept(Tail(parts))

\* os.getenv(name, default) of a variable that may be unset
getenv(var, default) == IF var.set THEN var.v ELSE default

\* whether int(text) raises ValueError
IntRaises(text) ==
    \/ Strip(text) = <<>>
    \/ \E i \in 1..Len(Strip(text)) : Strip(text)[i] \notin Digit

\* all_ok and the first recipient (lines 32-93)
collect_verification_report(e) ==
    LET id_ok == Len(e.MACKAY_ID_NUMBER) = IdLen
        birthday_ok == Len(e.MACKAY_BIRTHDAY) = BirthdayLen
        email_list_str == e.MACKAY_NOTIFICATION_EMAIL
        email_list == IF email_list_str # <<>>
                      THEN StripKept(Split(email_list_str, ","))
                      ELSE <<>>
        sender == getenv(e.SMTP_SENDER, e.SMTP_USERNAME)
        smtp_ok == e.SMTP_SERVER # <<>> /\ e.SMTP_USERNAME # <<>> /\ sender # <<>>
    IN [all_ok |-> id_ok /\ birthday_ok /\ email_list # <<>> /\ smtp_ok,
        primary |-> IF email_list # <<>> THEN email_list[1] ELSE <<>>]

\* "raised" when int() of SMTP_PORT raises, "incomplete" when a setting
\* is missing, else what the SMTP exchange gave (lines 95-142)
send_verification_email(e, recipient_email, smtp) ==
    IF IntRaises(getenv(e.SMTP_PORT, <<"5", "8", "7">>)) THEN "raised"
    ELSE IF \/ e.SMTP_SERVER = <<>>
            \/ e.SMTP_USERNAME = <<>>
            \/ e.SMTP_PASSWORD = <<>>
            \/ recipient_email = <<>>
    THEN "incomplete"
    ELSE smtp

\* main of verify_config.py (lines 144-171): the report and the exit code,
\* 1 also when an exception leaves main
verify_main(e, smtp) ==
    LET r == collect_verification_report(e)
        sender_email == getenv(e.SMTP_SENDER, e.SMTP_USERNAME)
        mail == IF r.primary # <<>> THEN send_verification_email(e, r.primary, smtp)
                ELSE IF sender_email # <<>>
                THEN send_verification_email(e, sender_email, smtp)
                ELSE "none"
    IN [all_ok |-> r.all_ok, primary |-> r.primary, mail |-> mail,
        code |-> IF mail = "raised" THEN 1 ELSE IF r.all_ok THEN 0 ELSE 1]

Xs(n) == [i \in 1..n |-> "x"]

MaybeSet == { <<>>, <<"s">> }

Environments ==
    [MACKAY_ID_NUMBER : {Xs(0), Xs(IdLen - 1), Xs(IdLen), Xs(IdLen + 1)},
     MACKAY_BIRTHDAY : {Xs(0), Xs(BirthdayLen), Xs(BirthdayLen + 1)},
     MACKAY_NOTIFICATION_EMAIL : SeqsUpTo({"a", ",", " "}, MaxEmailLen),
     SMTP_SERVER : MaybeSet,
     SMTP_USERNAME : MaybeSet,
     SMTP_PASSWORD : MaybeSet,
     SMTP_SENDER : {[set |-> FALSE, v |-> <<>>], [set |-> TRUE, v |-> <<>>],
                    [set |-> TRUE, v |-> <<"s">>]},
     SMTP_PORT : {[set |-> FALSE, v |-> <<>>], [set |-> TRUE, v |-> <<>>],
                  [set |-> TRUE, v |-> <<"4", "6", "5">>]}]

InitVerify ==
    /\ RunIdle
    /\ exit = -1
    /\ email_config = FALSE
    /\ mpc = "off"
    /\ cycles = 0
    /\ error_count = 0
    /\ fails = 0
    /\ driver = 0
    /\ checked = <<>>
    /\ found = <<>>
    /\ sends = <<>>
    /\ cycleEnd = "none"
    /\ sentBefore = {}
    /\ environ \in Environments
    /\ report = NoReport

\* one execution of verify_config.py
Verify ==
    /\ exit = -1
    /\ \E smtp \in {"sent", "smtp_error"} :
          LET r == verify_main(environ, smtp)
          IN /\ report' = [all_ok |-> r.all_ok, primary |-> r.primary, mail |-> r.mail]
             /\ exit' = r.code
    /\ UNCHANGED <<email_config, mpc, cycles, error_count, fails, driver, checked,
                   found, sends, cycleEnd, sentBefore, environ>>
    /\ UNCHANGED registrar

NextVerify == Verify

SpecVerify == InitVerify /\ [][NextVerify]_vars

----------------------------------------------------------------------------
(* The claims *)

\* no attempt of this run so far returned success
NoSuccess == \A i \in 1..Len(outs) : ~outs[i]

\* the last attempt of this run returned success
LastSucceeded == outs # <<>> /\ outs[Len(outs)]

\* C1: the registration POSTs of a run are issued in the order of the
\* candidates (dates_to_try x doctors_to_try), and a POST whose outcome is
\* success is the last POST of its run.
C1_OrderedUntilSuccess ==
    /\ Len(posts) = Len(outs)
    /\ Len(posts) <= Len(Candidates)
    /\ \A i \in 1..Len(posts) : posts[i] = Candidates[i]
    /\ \A i \in 1..(Len(outs) - 1) : ~outs[i]

C1_Witness ==
    /\ pc = "done"
    /\ result = "success"
    /\ posts = <<Candidates[1], Candidates[2]>>

\* C2: a run that starts after a run ended with Success, and less than
\* PauseHours after that, returns "skipped" and issues no GET and no POST,
\* whether the notification was delivered or not.
C2_SkippedAfterSuccess ==
    (/\ succRun > 0
     /\ succRun < run
     /\ pc # "idle"
     /\ entryTime < succAt + PauseHours)
    => (pc = "done" /\ result = "skipped" /\ gets = <<>> /\ posts = <<>>)

\* C3: a run that ends with Success has called send_email_notification and
\* has written the cooldown, with pause_until in the future.
C3_SuccessAlwaysPauses ==
    (pc = "done" /\ result = "success")
    => (/\ notified # <<>>
        /\ "cooldown" \in {writes[i] : i \in 1..Len(writes)}
        /\ load_state(file).pause_until.k = "iso"
        /\ load_state(file).pause_until.t > succAt)

\* the page text holds a full-slot keyword
HasFullKeyword(page) == FirstKeyword(full_keywords, get_text(page)) # 0

\* C4: a page whose text holds a full-slot keyword is classified Full.
C4_FullWins ==
    (pc = "parsed" /\ lastResp.fs = "ok" /\ HasFullKeyword(lastResp.page))
    => (GetBool(lastOut, "full") /\ ~GetBool(lastOut, "success"))

\* the stored pause_until was a time later than the clock when this run
\* called should_skip_check
EntryPaused ==
    /\ load_state(entryFile).pause_until.k = "iso"
    /\ entryTime < load_state(entryFile).pause_until.t

\* C5: a run that starts with pause_until later than now returns "skipped"
\* and issues no GET and no POST.
C5_PausedRunSkips ==
    (pc # "idle" /\ EntryPaused)
    => (pc = "done" /\ result = "skipped" /\ gets = <<>> /\ posts = <<>>)

C5_Witness ==
    /\ pc = "done"
    /\ EntryPaused
    /\ load_state(entryFile).pause_until.t = entryTime + 1
    /\ result = "skipped"

\* C6: on every state file and clock the program reaches, should_skip_check
\* returns true exactly when pause_until is a time and now < pause_until;
\* from pause_until on it returns false and leaves pause_until cleared in
\* the file; a second call then returns false and leaves the file as it is.
\* The entry guard of a run skips exactly in the first case.
C6_SkipExactlyWhilePaused ==
    LET state == load_state(file)
        r == should_skip_check(file, now)
        due == state.pause_until.k = "iso" /\ now >= state.pause_until.t
    IN /\ r.skip <=> (state.pause_until.k = "iso" /\ now < state.pause_until.t)
       /\ due => (~r.skip /\ load_state(r.file).pause_until = Null)
       /\ ~r.skip =>
             \A t \in now..MaxTime :
                 LET again == should_skip_check(r.file, t)
                 IN ~again.skip /\ again.file = r.file
       /\ pc # "idle" => ((result = "skipped") <=> EntryPaused)

C6_Witness ==
    /\ pc = "session"
    /\ load_state(entryFile).pause_until = isoformat(entryTime)
    /\ load_state(file).pause_until = Null
    /\ writes = <<"clear">>

\* C7: a run whose first success is at candidate k has made exactly k
\* POSTs, returns "success", and has called send_email_notification once,
\* with the dict made from candidate k's response; a run without a success
\* outcome never calls it.
C7_OneNotificationAtSuccess ==
    /\ (pc = "done" /\ result = "success") =>
          /\ LastSucceeded
          /\ \A i \in 1..(Len(outs) - 1) : ~outs[i]
          /\ Len(posts) = Len(outs)
          /\ posts[Len(posts)] = Candidates[Len(outs)]
          /\ notified = <<make_appointment(lastResp)>>
          /\ GetBool(notified[1], "success")
    /\ NoSuccess => notified = <<>>
    /\ (pc = "done" /\ result # "success") => notified = <<>>
    /\ Len(notified) <= 1

C7_Witness ==
    /\ pc = "done"
    /\ result = "success"
    /\ outs = <<FALSE, TRUE>>
    /\ Len(posts) = 2
    /\ Len(notified) = 1
    /\ Has(notified[1], "appointment_date")
    /\ notified[1]["appointment_date"] = D2

\* the run is at a step that is neither the end nor the sending of mail
Running == pc \in {"idle", "session", "attempt", "finish"}

\* C8: a run ends or reaches the notification of a success; it makes one
\* round over the candidates, so at most Len(Candidates) POSTs, and it
\* returns "no_availability" after exactly one POST per candidate, none of
\* them a success.
C8_BoundedRound ==
    /\ Running ~> (pc \in {"done", "notify"})
    /\ [](Len(posts) <= Len(Candidates))
    /\ []((pc = "done" /\ result = "no_availability") =>
             (NoSuccess /\ Len(posts) = Len(Candidates)))

C8_Witness ==
    /\ pc = "done"
    /\ result = "no_availability"
    /\ Len(posts) = Len(Candidates)
    /\ NoSuccess

\* C9: the session GETs are issued in the order entry page, form page; a
\* GET that fails is the last request of the run, which then returns
\* "init_failed"; a POST is issued only after both GETs have succeeded.
C9_SessionBeforePosts ==
    /\ Len(gets) <= Len(SessionUrls)
    /\ \A i \in 1..Len(gets) : gets[i][1] = SessionUrls[i]
    /\ \A i \in 1..Len(gets) :
          gets[i][2] # "ok" =>
              (i = Len(gets) /\ pc = "done" /\ result = "init_failed" /\ posts = <<>>)
    /\ posts # <<>> =>
          (Len(gets) = Len(SessionUrls) /\ \A i \in 1..Len(gets) : gets[i][2] = "ok")
    /\ result = "init_failed" => (gets # <<>> /\ gets[Len(gets)][2] # "ok")

C9_Witness ==
    /\ pc = "done"
    /\ result = "init_failed"
    /\ gets = <<<<"index.php", "timeout">>>>
    /\ posts = <<>>

WriteSites == {writes[i] : i \in 1..Len(writes)}

IsSuccess(out) == GetBool(out, "success")
IsFull(out) == GetBool(out, "full")
IsUnknown(out) ==
    /\ ~IsSuccess(out)
    /\ ~IsFull(out)
    /\ Has(out, "error")
    /\ \/ StartsAt(out["error"], UnparsedPrefix, 1)
       \/ StartsAt(out["error"], ParseExcPrefix, 1)
IsError(out) ==
    /\ ~IsSuccess(out)
    /\ ~IsFull(out)
    /\ Has(out, "error")
    /\ ~IsUnknown(out)

\* C11: a response with no success, full or error keyword, no div#myprint
\* and no table is classified Unknown, carrying the first 500 characters of
\* the page text, and parse_result does not raise.
C11_NoMatchIsUnknown ==
    ( /\ pc = "parsed"
      /\ KeywordRule(get_text(lastResp.page)) = "none"
      /\ ~lastResp.page.myprint
      /\ lastResp.page.tables = <<>> )
    => /\ ~Raised(lastOut)
       /\ IsUnknown(lastOut)
       /\ lastOut["error"] =
              UnparsedPrefix \o Take(get_text(lastResp.page), PreviewLen) \o Ellipsis

\* C12: parse_result never raises, whatever the page and whether or not its
\* debug files can be written; a failure inside it comes back as an Unknown
\* outcome.
C12_NeverRaises ==
    pc = "parsed"
    => /\ ~Raised(lastOut)
       /\ lastResp.fs # "ok" => IsUnknown(lastOut)

\* C13: main exits with 0 when the run returned success or skipped, and with
\* a non-zero code when it returned init_failed.
C13_ExitCodes ==
    pc = "done"
    => /\ result \in {"success", "skipped"} => exit = 0
       /\ result = "init_failed" => exit # 0

\* C14: a state written by save_state and read back by load_state is the
\* same state, field for field.
C14_RoundTrip ==
    (pc = "loaded" /\ disk = "written")
    => /\ loaded.pause_until = mem.pause_until
       /\ loaded.last_notification_time = mem.last_notification_time
       /\ loaded.notification_count = mem.notification_count
       /\ loaded.last_check = mem.last_check
       /\ DOMAIN loaded = DOMAIN mem

C14_Witness ==
    /\ pc = "loaded"
    /\ disk = "written"
    /\ entryFile.kind = "garbled"
    /\ mem.pause_until = isoformat(PauseHours)
    /\ mem.last_notification_time = isoformat(0)
    /\ mem.notification_count = MaxCount
    /\ mem.last_check = Null
    /\ loaded = mem

\* C15: when the process is killed during a write of the state file, the
\* file holds the complete previous state or the complete new state, and a
\* later load_state sees one of the two.
C15_KillLeavesOldOrNew ==
    disk = "killed"
    => /\ file = entryFile \/ file = save_state(mem)
       /\ pc = "loaded" => loaded \in {load_state(entryFile), mem}

C17_TransportFailureGoesOn ==
    lastResp.kind \in TransportFailures
    => /\ ~Raised(lastOut)
       /\ ~IsSuccess(lastOut)
       /\ ~IsFull(lastOut)
       /\ Has(lastOut, "error")
       /\ IF Len(posts) < Len(Candidates)
          THEN pc = "attempt" /\ idx = Len(posts) + 1
          ELSE /\ pc \in {"finish", "done"}
               /\ pc = "done" => result = "no_availability"

C17_Witness ==
    /\ lastResp.kind = "timeout"
    /\ Len(posts) = 2
    /\ pc = "attempt"
    /\ idx = 3
    /\ lastOut = Failure(TimeoutText)

\* C18: an outcome returned by parse_result carries exactly one of the
\* tags Success, Full, Error, Unknown.
C18_ExactlyOneTag ==
    (pc = "parsed" /\ ~Raised(lastOut))
    => /\ ~(IsSuccess(lastOut) /\ IsFull(lastOut))
       /\ IsSuccess(lastOut) \/ IsFull(lastOut) \/ IsError(lastOut) \/ IsUnknown(lastOut)
       /\ ~(IsError(lastOut) /\ IsUnknown(lastOut))

\* C19: after a success whose notification was delivered at time t, the
\* stored state has pause_until = t + 2 hours, last_notification_time = t
\* and the notification_count stored before, plus one.
C19_CooldownAfterDelivery ==
    (pc = "done" /\ result = "success" /\ "cooldown" \in WriteSites)
    => LET before == load_state(entryFile)
           after == load_state(file)
       IN /\ succRun = run
          /\ after.pause_until = isoformat(succAt + PauseHours)
          /\ after.last_notification_time = isoformat(succAt)
          /\ after.notification_count = before.notification_count + 1
          /\ after.last_check = before.last_check

C19_Witness ==
    /\ pc = "done"
    /\ result = "success"
    /\ "cooldown" \in WriteSites
    /\ succAt >= 1
    /\ load_state(entryFile).notification_count >= 1
    /\ load_state(file).notification_count = load_state(entryFile).notification_count + 1
    /\ load_state(file).pause_until = isoformat(succAt + PauseHours)

\* C20: a run goes from idle through the session set-up to the attempts and
\* ends with one result, skipped, init_failed, success or no_availability;
\* no_availability comes only after every candidate was submitted and none
\* succeeded.
RunEnds ==
    /\ pc # "done" => result = "none"
    /\ pc = "done" => result \in {"skipped", "init_failed", "success", "no_availability"}
    /\ (pc = "done" /\ result = "skipped") => gets = <<>> /\ posts = <<>>
    /\ (pc = "done" /\ result = "init_failed") => posts = <<>>
    /\ (pc = "done" /\ result = "success") => posts # <<>> /\ outs[Len(outs)]
    /\ (pc = "done" /\ result = "no_availability")
       => /\ Len(posts) = Len(Candidates)
          /\ Len(outs) = Len(Candidates)
          /\ \A i \in 1..Len(outs) : ~outs[i]
    /\ pc \in {"attempt", "notify", "finish"} => Len(gets) = Len(SessionUrls)

RunMoves ==
    /\ pc = "idle" => \/ pc' \in {"idle", "session"}
                      \/ pc' = "done" /\ result' = "skipped"
    /\ pc = "session" => \/ pc' \in {"session", "attempt"}
                         \/ pc' = "done" /\ result' = "init_failed"
    /\ pc = "attempt" => pc' \in {"attempt", "notify", "finish"}
    /\ pc = "notify" => \/ pc' = "notify"
                        \/ pc' = "done" /\ result' = "success"
    /\ pc = "finish" => \/ pc' = "finish"
                        \/ pc' = "done" /\ result' = "no_availability"
    /\ pc = "done" => \/ pc' = "done" /\ result' = result
                      \/ pc' = "idle"

C20_RunStateMachine == []RunEnds /\ [][RunMoves]_vars

C20_Witness ==
    /\ run = MaxRuns
    /\ pc = "done"
    /\ result = "no_availability"
    /\ Len(posts) = Len(Candidates)
    /\ Len(gets) = Len(SessionUrls)

\* C21: a div#myprint block or a result table whose status text matches none
\* of the keyword lists does not decide the outcome: parse_result goes on to
\* the later rules (inline error markup, then the unparsed preview).
C21_BlockFallsThrough ==
    LET page == lastResp.page
        page_text == get_text(page)
        items == ScanItems(page.items, EmptyDict)
        decided == (page.myprint /\ Has(items, "status")) \/ ScanTables(page.tables) # EmptyDict
    IN ( /\ pc = "parsed"
         /\ lastResp.fs = "ok"
         /\ KeywordRule(page_text) = "none"
         /\ decided )
       => /\ ~Has(lastOut, "status")
          /\ lastOut = BlockRules([page EXCEPT !.myprint = FALSE, !.tables = <<>>], page_text)

\* the keywords of a list that occur in a text
Occurring(keywords, text) == {i \in 1..Len(keywords) : Contains(text, keywords[i])}

\* C22: a response whose text holds an error phrase and neither a success
\* nor a full keyword is classified Error, the reason being the first phrase
\* of the error list that occurs, whatever blocks or alert markup it has.
C22_ErrorPhraseWins ==
    LET page_text == get_text(lastResp.page)
        phrases == Occurring(error_keywords, page_text)
    IN ( /\ pc = "parsed"
         /\ Occurring(success_keywords, page_text) = {}
         /\ Occurring(full_keywords, page_text) = {}
         /\ phrases # {} )
       => /\ ~Raised(lastOut)
          /\ IsError(lastOut)
          /\ \E i \in phrases :
                /\ \A j \in phrases : i <= j
                /\ lastOut["error"] = error_keywords[i]

DetailKeys == {"appointment_date", "department", "doctor"}

\* C23: on a page classified Success by keyword the outcome is Success with
\* the status text set; each detail is a non-empty value or absent; a value
\* found by the scan of the <strong> labels is kept by the regex fallbacks.
C23_ExtractionKeepsVerdict ==
    LET page_text == get_text(lastResp.page)
        scanned == ScanStrongs(lastResp.page.strongs, EmptyDict)
    IN ( /\ pc = "parsed"
         /\ lastResp.fs = "ok"
         /\ Occurring(success_keywords, page_text) # {} )
       => /\ ~Raised(lastOut)
          /\ IsSuccess(lastOut)
          /\ ~IsFull(lastOut)
          /\ GetText(lastOut, "status")
          /\ \A key \in DetailKeys :
                /\ Has(lastOut, key) => lastOut[key] # <<>>
                /\ GetText(scanned, key) => lastOut[key] = scanned[key]

\* what a step that writes the state file may change
FrameMoves ==
    LET b == load_state(file)
        a == load_state(file')
    IN /\ writes' = Append(writes, "clear")
          => /\ a.pause_until = Null
             /\ a.last_notification_time = b.last_notification_time
             /\ a.notification_count = b.notification_count
             /\ a.last_check = b.last_check
       /\ writes' = Append(writes, "cooldown")
          => a.last_check = b.last_check
       /\ writes' = Append(writes, "last_check")
          => /\ a.pause_until = b.pause_until
             /\ a.last_notification_time = b.last_notification_time
             /\ a.notification_count = b.notification_count
       /\ (file' # file)
          => \E site \in {"clear", "cooldown", "last_check"} :
                writes' = Append(writes, site)

C25_CorruptPauseCleared ==
    (load_state(entryFile).pause_until.k = "bad" /\ pc # "idle")
    => /\ result # "skipped"
       /\ writes # <<>>
       /\ writes[1] = "clear"
       /\ load_state(file).pause_until.k \in {"null", "iso"}
       /\ "cooldown" \notin WriteSites => load_state(file).pause_until = Null

C25_Witness ==
    /\ load_state(entryFile).pause_until = Bad
    /\ pc = "session"
    /\ gets = <<>>
    /\ writes = <<"clear">>
    /\ load_state(file).pause_until = Null

\* the stored notification_count over one run
CountPerRun ==
    LET before == load_state(entryFile).notification_count
        after == load_state(file).notification_count
    IN /\ after \in Nat
       /\ after >= before
       /\ after <= before + 1
       /\ after = before + 1
          => /\ LastSucceeded
             /\ "cooldown" \in WriteSites
             /\ pc = "done"
             /\ result = "success"

\* the stored notification_count over one step
CountMoves ==
    LET b == load_state(file).notification_count
        a == load_state(file').notification_count
    IN /\ a >= b
       /\ a # b => /\ a = b + 1
                   /\ pc = "notify"
                   /\ GetBool(lastOut, "success")
                   /\ writes' = Append(writes, "cooldown")

CountAtSleep ==
    mpc = "sleep"
    => /\ error_count \in 0..(RestartAfter - 1)
       /\ error_count = fails % RestartAfter
       /\ cycleEnd = "ok" => error_count = 0 /\ fails = 0

\* how the counter and the driver change in a step
CountSteps ==
    /\ error_count' # error_count
       => \/ error_count' = error_count + 1 /\ cycleEnd' = "raised"
          \/ error_count' = 0
    /\ cycleEnd' = "ok" => error_count' = 0
    /\ (cycleEnd' = "raised" /\ cycleEnd = "none")
       => \/ error_count' = error_count + 1
          \/ error_count' = 0 /\ error_count + 1 = RestartAfter /\ driver' = driver + 1
    /\ driver' # driver
       => /\ driver' = driver + 1
          /\ cycleEnd' = "raised"
          /\ error_count = RestartAfter - 1
          /\ error_count' = 0
          /\ fails' >= RestartAfter
          /\ fails' % RestartAfter = 0

\* C27: the error counter of monitor is 0 after a cycle that completed
\* without exception, goes up by 1 with a failing cycle, and at 3 the driver
\* is restarted and the counter set back to 0; at every sleep it is in 0..2,
\* and the driver is restarted only after 3 failing cycles in a row.
C27_ErrorCounterAndRestart == []CountAtSleep /\ [][CountSteps]_vars

C27_Witness ==
    /\ mpc = "sleep"
    /\ cycles = 4
    /\ fails = 4
    /\ driver = 2
    /\ error_count = 1

\* the slots check_all_doctors returns for what the URLs gave
RECURSIVE SlotsOf(_)
SlotsOf(cs) ==
    IF cs = <<>> THEN <<>>
    ELSE (IF Head(cs).got.none THEN <<>> ELSE Head(cs).got.slots) \o SlotsOf(Tail(cs))

\* C28: in a cycle that completes, every URL is checked once, in the order
\* of the list, a failed check giving no slots and not ending the loop; the
\* notification is sent if and only if a slot was found and e-mail is
\* configured, once, with all the slots found, notified before or not.
C28_CycleChecksAllAndNotifiesOnce ==
    /\ Len(checked) <= Len(urls)
    /\ \A i \in 1..Len(checked) : checked[i].url = urls[i]
    /\ Len(sends) <= 1
    /\ sends # <<>> => found # <<>> /\ email_config
    /\ cycleEnd = "ok"
       => /\ Len(checked) = Len(urls)
          /\ found = SlotsOf(checked)
          /\ sends # <<>> <=> (found # <<>> /\ email_config)
          /\ sends # <<>> => sends[1].slots = found

C28_Witness ==
    /\ cycles >= 2
    /\ cycleEnd = "ok"
    /\ checked[1].got.none
    /\ found # <<>>
    /\ SlotSet(found) \subseteq sentBefore
    /\ Len(sends) = 1
    /\ sends[1].slots = found

\* C29: verify_config exits with 0 exactly when MACKAY_ID_NUMBER has length
\* 10, MACKAY_BIRTHDAY has length 7, MACKAY_NOTIFICATION_EMAIL holds a
\* recipient that is not empty once trimmed, and SMTP_SERVER, SMTP_USERNAME
\* and SMTP_SENDER (SMTP_USERNAME when unset) are not empty; else with 1,
\* whether or not the report could be mailed.
C29_ExitZeroIffConfigured ==
    LET e == environ
        recipients == \E i \in 1..Len(e.MACKAY_NOTIFICATION_EMAIL) :
                          e.MACKAY_NOTIFICATION_EMAIL[i] \notin White \cup {","}
        sender == IF e.SMTP_SENDER.set THEN e.SMTP_SENDER.v ELSE e.SMTP_USERNAME
        configured == /\ Len(e.MACKAY_ID_NUMBER) = 10
                      /\ Len(e.MACKAY_BIRTHDAY) = 7
                      /\ recipients
                      /\ e.SMTP_SERVER # <<>>
                      /\ e.SMTP_USERNAME # <<>>
                      /\ sender # <<>>
    IN (mpc = "off" /\ pc = "off" /\ exit # -1)
       => /\ exit \in {0, 1}
          /\ exit = 0 <=> configured

====
